---- MODULE Spec2Model ----
(***************************************************************************)
(* QueryMind reflection pipeline (src/reflection_engine.py): the           *)
(* ReflectionEngine object, its four caches and its operations reflect,    *)
(* set_table and clear_cache, with the completion service and the backing  *)
(* store as nondeterministic collaborators.                                *)
(*                                                                         *)
(* Texts are sequences of chunks (strings).  A chunk is a piece of text    *)
(* that the engine's pattern matches never look inside: keywords,          *)
(* parentheses, the separator "|" and blanks are chunks of their own, so   *)
(* concatenation, strip(), upper()/lower(), `in` and the regular           *)
(* expressions are computed on the chunk sequence as the code computes     *)
(* them on the characters.                                                 *)
(***************************************************************************)
EXTENDS Integers, Sequences, FiniteSets, TLC

VARIABLES
    table_name,            \* self.table_name
    _reflection_cache,     \* self._reflection_cache : key -> verdict
    _explanation_cache,    \* self._explanation_cache : key -> explanation
    _semantic_cache,       \* self._semantic_cache : key -> {feedback, refined_sql}
    _column_values_cache,  \* self._column_values_cache : key -> list of values
    work,                  \* the requests the caller issues in this run
    menu,                  \* the completions the service gives in this run
    ops,                   \* number of operations performed so far
    returned,              \* request -> the verdict reflect returned for it (history)
    seen,                  \* the inputs each stage has run on (history)
    last                   \* observation of the last operation (history)

vars == <<table_name, _reflection_cache, _explanation_cache, _semantic_cache,
          _column_values_cache, work, menu, ops, returned, seen, last>>

(***************************************************************************)
(* Bounds of the model.                                                    *)
(***************************************************************************)
MaxOps == 3
NumAddr == 2

(***************************************************************************)
(* Python values: a str (a text) or a non-str value (None, a number, a     *)
(* list: all of them lack .lower()/.upper()/.strip()).                     *)
(***************************************************************************)
Str(s) == [t |-> "str", v |-> s]
NonStr == [t |-> "none", v |-> <<"None">>]
IsStr(x) == x.t = "str"
\* f"{x}" : the text a value formats to
Format(x) == x.v

(***************************************************************************)
(* Text primitives.                                                        *)
(***************************************************************************)
\* str.upper() on one chunk.  The chunks of the model that are not listed
\* have no other letter case in the model and stand for their own upper case.
UpperChunk(c) ==
    CASE c \in {"sum", "Sum"} -> "SUM"
      [] c = "null" -> "NULL"
      [] c = "select" -> "SELECT"
      [] c = "from t" -> "FROM t"
      [] c = "where" -> "WHERE"
      [] c = "and" -> "AND"
      [] c = "like" -> "LIKE"
      [] c \in {"missing", "Missing"} -> "MISSING"
      [] c = "not present" -> "NOT PRESENT"
      [] c \in {"date", "Date"} -> "DATE"
      [] c = "doesn't exist" -> "DOESN'T EXIST"
      [] c \in {"no region", "No region"} -> "NO REGION"
      [] c = "no product" -> "NO PRODUCT"
      [] c = "color" -> "COLOR"
      [] c = "brand" -> "BRAND"
      [] c = "region" -> "REGION"
      [] c = "revenue" -> "REVENUE"
      [] c = "'ny'" -> "'NY'"
      [] OTHER -> c

\* str.lower() on one chunk, same convention.
LowerChunk(c) ==
    CASE c \in {"SUM", "Sum", "sum"} -> "sum"
      [] c \in {"NULL", "null"} -> "null"
      [] c \in {"SELECT", "select"} -> "select"
      [] c \in {"FROM t", "from t"} -> "from t"
      [] c \in {"WHERE", "where"} -> "where"
      [] c \in {"Missing", "MISSING", "missing"} -> "missing"
      [] c \in {"Date", "date"} -> "date"
      [] c \in {"No region", "no region"} -> "no region"
      [] c \in {"Color", "color"} -> "color"
      [] c \in {"Brand", "brand"} -> "brand"
      [] c \in {"Size", "size"} -> "size"
      [] c \in {"'NY'", "'ny'"} -> "'ny'"
      [] OTHER -> c

Upper(s) == [i \in 1..Len(s) |-> UpperChunk(s[i])]
Lower(s) == [i \in 1..Len(s) |-> LowerChunk(s[i])]

IsSpace(c) == c \in {" ", "\n"}

RECURSIVE LStrip(_)
LStrip(s) == IF s # <<>> /\ IsSpace(Head(s)) THEN LStrip(Tail(s)) ELSE s

RECURSIVE RStrip(_)
RStrip(s) ==
    IF s # <<>> /\ IsSpace(s[Len(s)]) THEN RStrip(SubSeq(s, 1, Len(s) - 1)) ELSE s

\* str.strip()
Strip(s) == RStrip(LStrip(s))

\* `w in s` for a keyword chunk w
In(w, s) == \E i \in 1..Len(s) : s[i] = w

(***************************************************************************)
(* Query results (pandas DataFrames).  A cell is an integer, a text or a   *)
(* null; a column is numeric ("num": int64/float64, null is NaN) or not    *)
(* ("obj": object dtype, null is None).                                    *)
(***************************************************************************)
Num(n) == [k |-> "int", i |-> n, s |-> ""]
Txt(x) == [k |-> "str", i |-> 0, s |-> x]
Null == [k |-> "null", i |-> 0, s |-> ""]
Col(name, dtype) == [name |-> name, dtype |-> dtype]
DataFrame(cols, rows) == [cols |-> cols, rows |-> rows]

NRows(df) == Len(df.rows)
NCols(df) == Len(df.cols)
\* df.empty
Empty(df) == NRows(df) = 0 \/ NCols(df) = 0
\* "name" in df.columns
ColIndex(df, name) == {j \in 1..NCols(df) : df.cols[j].name = name}
\* (df.select_dtypes("number") < 0).any().any()   (NaN < 0 is False)
HasNegative(df) ==
    \E j \in 1..NCols(df) : /\ df.cols[j].dtype = "num"
                            /\ \E r \in 1..NRows(df) :
                                 /\ df.rows[r][j].k = "int"
                                 /\ df.rows[r][j].i < 0
\* df.duplicated().sum() > 0
HasDuplicates(df) ==
    \E r1, r2 \in 1..NRows(df) : r1 < r2 /\ df.rows[r1] = df.rows[r2]
\* df.isna().all() per column
NullOnly(df, j) == \A r \in 1..NRows(df) : df.rows[r][j].k = "null"
RECURSIVE NullColsFrom(_, _)
NullColsFrom(df, j) ==
    IF j > NCols(df) THEN <<>>
    ELSE (IF NullOnly(df, j) THEN <<df.cols[j].name>> ELSE <<>>)
         \o NullColsFrom(df, j + 1)
\* df.columns[df.isna().all()].tolist()
NullCols(df) == NullColsFrom(df, 1)
\* len(df["region"].unique())
NUnique(df, j) == Cardinality({df.rows[r][j] : r \in 1..NRows(df)})
RegionGap(df) == \E j \in ColIndex(df, "region") : NUnique(df, j) < 4

EmptyIssue == <<"Empty dataframe - possible WHERE or JOIN condition error.">>
NegativeIssue ==
    <<"Negative", " numeric values detected (possible refunds or sign errors).">>
DuplicateIssue == <<"Duplicate rows found in result set.">>
NullIssue(names) == <<"Empty/null-only column(s): [">> \o names \o <<"]">>
RegionIssue ==
    <<"Some regions ", "missing",
      " - possible filtering issue or incomplete data coverage.">>
NoIssue == <<"No data-level anomalies detected.">>

\* a faulty detector, without the early return of line 142-143
detect_anomalies_without_early_return(df) ==
    LET issues ==
            (IF Empty(df) THEN <<EmptyIssue>> ELSE <<>>)
         \o (IF HasNegative(df) THEN <<NegativeIssue>> ELSE <<>>)
         \o (IF HasDuplicates(df) THEN <<DuplicateIssue>> ELSE <<>>)
         \o (IF NullCols(df) # <<>> THEN <<NullIssue(NullCols(df))>> ELSE <<>>)
         \o (IF RegionGap(df) THEN <<RegionIssue>> ELSE <<>>)
    IN IF issues = <<>> THEN <<NoIssue>> ELSE issues

\* ReflectionEngine.detect_output_anomalies
detect_output_anomalies(df) ==
    IF Empty(df) THEN <<EmptyIssue>>
    ELSE LET issues ==
                 (IF HasNegative(df) THEN <<NegativeIssue>> ELSE <<>>)
              \o (IF HasDuplicates(df) THEN <<DuplicateIssue>> ELSE <<>>)
              \o (IF NullCols(df) # <<>> THEN <<NullIssue(NullCols(df))>> ELSE <<>>)
              \o (IF RegionGap(df) THEN <<RegionIssue>> ELSE <<>>)
         IN IF issues = <<>> THEN <<NoIssue>> ELSE issues

\* line 159: with more than one column named "region", df["region"] is a
\* DataFrame, which has no unique(): the detector raises AttributeError
DetectorRaises(df) == ~Empty(df) /\ Cardinality(ColIndex(df, "region")) > 1

\* df.head(3).to_dict(orient="records"): the first three rows, by column name
Min(a, b) == IF a < b THEN a ELSE b
SampleOutput(df) ==
    [cols |-> [j \in 1..NCols(df) |-> df.cols[j].name],
     rows |-> SubSeq(df.rows, 1, Min(3, NRows(df)))]

\* the text of one cell in to_markdown: the lossy step (5 and "5" print alike)
RenderCell(c) ==
    CASE c.k = "int" -> ToString(c.i)
      [] c.k = "str" -> c.s
      [] OTHER -> "nan"
RECURSIVE RenderRow(_)
RenderRow(cells) ==
    IF cells = <<>> THEN <<"|", "\n">>
    ELSE <<"|", Head(cells)>> \o RenderRow(Tail(cells))
RECURSIVE RenderRows(_)
RenderRows(rows) ==
    IF rows = <<>> THEN <<>>
    ELSE RenderRow([j \in 1..Len(Head(rows)) |-> RenderCell(Head(rows)[j])])
         \o RenderRows(Tail(rows))
\* pd.DataFrame(sample_output).to_markdown(index=False)
ToMarkdown(sample) == RenderRow(sample.cols) \o RenderRows(sample.rows)
NoOutputMarker == <<"No output data available (empty result)">>
\* output_str of semantic_reflection
OutputStr(sample) ==
    IF Len(sample.rows) > 0 THEN ToMarkdown(sample) ELSE NoOutputMarker

(***************************************************************************)
(* _get_df_hash: md5 over df.values.tobytes().  The bytes hold the cell    *)
(* values row by row and nothing else (no column names, no shape) when     *)
(* every column is numeric; when some column is not, df.values is an       *)
(* object array and tobytes() yields the addresses of the cell objects,    *)
(* which the allocator decides: any of NumAddr layouts.  A result without  *)
(* rows has no bytes.  md5 and the hex digest are taken as injective.      *)
(***************************************************************************)
AllNumeric(df) == \A j \in 1..NCols(df) : df.cols[j].dtype = "num"
RECURSIVE CellBytes(_)
CellBytes(rows) ==
    IF rows = <<>> THEN <<>>
    ELSE [j \in 1..Len(Head(rows)) |-> RenderCell(Head(rows)[j])]
         \o CellBytes(Tail(rows))
ValueBytes(df, addr) ==
    IF Empty(df) THEN <<>>
    ELSE IF AllNumeric(df) THEN CellBytes(df.rows)
    ELSE <<"object array at", ToString(addr)>>
_get_df_hash(df, addr) == ToString(ValueBytes(df, addr))

(***************************************************************************)
(* The regular expressions of the engine, on chunk sequences.              *)
(***************************************************************************)
\* \s+ : the text after a non-empty run of blanks, or "none" without a blank
RECURSIVE SkipSpaces(_)
SkipSpaces(s) == IF s # <<>> /\ IsSpace(Head(s)) THEN SkipSpaces(Tail(s)) ELSE s
AfterSpaces(s) ==
    IF s # <<>> /\ IsSpace(Head(s)) THEN [ok |-> TRUE, rest |-> SkipSpaces(s)]
    ELSE [ok |-> FALSE, rest |-> s]

\* \w+ : a chunk made only of letters, digits and "_"
NonWordChunks ==
    {" ", "\n", "|", "(", ")", "=", "*", ";", ",", "?", "'NY'", "'ny'", "'2023%'",
     "'North'", "(TEXT)", "(REAL)", "not present", "doesn't exist",
     "no region", "No region", "no product"}
IsWord(c) == c \notin NonWordChunks

\* one pattern  KEYWORD\s+(\w+)\s+(?:LIKE|=|IN)  tried at the head of s
MatchFilter(kw, s) ==
    IF s = <<>> \/ UpperChunk(Head(s)) # kw THEN <<>>
    ELSE LET a == AfterSpaces(Tail(s)) IN
         IF ~a.ok \/ a.rest = <<>> \/ ~IsWord(Head(a.rest)) THEN <<>>
         ELSE LET b == AfterSpaces(Tail(a.rest)) IN
              IF b.ok /\ b.rest # <<>>
                 /\ UpperChunk(Head(b.rest)) \in {"LIKE", "=", "IN"}
              THEN <<Head(a.rest)>> ELSE <<>>
RECURSIVE FindFilters(_, _)
FindFilters(kw, s) ==
    IF s = <<>> THEN {}
    ELSE {MatchFilter(kw, s)[i] : i \in 1..Len(MatchFilter(kw, s))}
         \cup FindFilters(kw, Tail(s))
\* ReflectionEngine._extract_filtered_columns: list(set(columns))
_extract_filtered_columns(sql_query) ==
    FindFilters("WHERE", sql_query) \cup FindFilters("AND", sql_query)
        \cup FindFilters("OR", sql_query)

\* WHERE\s+(.+?)(?:GROUP|ORDER|LIMIT|;|$) : the first match's group, as a
\* one-element list, or the empty list
RECURSIVE UntilTerminator(_)
UntilTerminator(s) ==
    IF s = <<>> \/ UpperChunk(Head(s)) \in {"GROUP", "ORDER", "LIMIT", ";"}
    THEN <<>>
    ELSE <<Head(s)>> \o UntilTerminator(Tail(s))
RECURSIVE FindWhere(_)
FindWhere(s) ==
    IF s = <<>> THEN <<>>
    ELSE IF UpperChunk(Head(s)) = "WHERE" /\ AfterSpaces(Tail(s)).ok
            /\ AfterSpaces(Tail(s)).rest # <<>>
         THEN LET rest == AfterSpaces(Tail(s)).rest
              IN <<<<Head(rest)>> \o UntilTerminator(Tail(rest))>>
         ELSE FindWhere(Tail(s))

\* re.sub(r'\s+', ' ', text)
RECURSIVE CollapseSpaces(_)
CollapseSpaces(s) ==
    IF s = <<>> THEN <<>>
    ELSE IF IsSpace(Head(s)) THEN <<" ">> \o CollapseSpaces(SkipSpaces(s))
    ELSE <<Head(s)>> \o CollapseSpaces(Tail(s))
NormalizeWhere(w) == Lower(Strip(CollapseSpaces(w)))

\* ReflectionEngine._validate_sql_change (refined_sql is a str here)
_validate_sql_change(original_sql, refined_sql) ==
    IF Upper(refined_sql) = <<"NULL">> \/ Strip(original_sql) = Strip(refined_sql)
    THEN TRUE
    ELSE LET old_where == FindWhere(original_sql)
             new_where == FindWhere(refined_sql)
         IN ~(/\ old_where # <<>>
              /\ new_where # <<>>
              /\ NormalizeWhere(old_where[1]) = NormalizeWhere(new_where[1]))

\* the position of the first ")" of s, or 0
RECURSIVE FirstClose(_, _)
FirstClose(s, i) ==
    IF i > Len(s) THEN 0 ELSE IF s[i] = ")" THEN i ELSE FirstClose(s, i + 1)
\* re.sub(r"SUM\(([^)]+)\)", r"SUM(ABS(\1))", sql_query, flags=re.IGNORECASE)
RECURSIVE SubSumAbs(_)
SubSumAbs(s) ==
    IF s = <<>> THEN <<>>
    ELSE LET close == FirstClose(s, 3) IN
         IF UpperChunk(Head(s)) = "SUM" /\ Len(s) >= 4 /\ s[2] = "("
            /\ s[3] # ")" /\ close > 0
         THEN <<"SUM", "(", "ABS", "(">> \o SubSeq(s, 3, close - 1)
              \o <<")", ")">> \o SubSumAbs(SubSeq(s, close + 1, Len(s)))
         ELSE <<Head(s)>> \o SubSumAbs(Tail(s))

(***************************************************************************)
(* detect_missing_fields                                                   *)
(***************************************************************************)
RECURSIVE SplitLines(_, _)
SplitLines(s, cur) ==
    IF s = <<>> THEN <<cur>>
    ELSE IF Head(s) = "\n" THEN <<cur>> \o SplitLines(Tail(s), <<>>)
    ELSE SplitLines(Tail(s), Append(cur, Head(s)))
\* "(" in line
HasParen(line) == \E i \in 1..Len(line) : line[i] \in {"(", "(TEXT)", "(REAL)"}
\* s.split(" ")[0].strip().lower()
FirstPiece(line) == IF line = <<>> \/ Head(line) = " " THEN "" ELSE LowerChunk(Head(line))
SchemaCols(schema) ==
    LET lines == SplitLines(schema, <<>>)
    IN {FirstPiece(lines[i]) : i \in {n \in 1..Len(lines) : HasParen(lines[n])}}
\* re.findall(r"[a-zA-Z_]+", q_lower): the chunks made of letters
IsLetters(c) == IsWord(c) /\ c # "2023"
\* len(word) > 3
ShortWords == {"in", "by", "NY", "ny", "of", "the", "t"}
Vocabulary == {"color", "rating", "brand", "model", "size", "version"}
RECURSIVE MissingTerms(_, _)
MissingTerms(words, schema_cols) ==
    IF words = <<>> THEN <<>>
    ELSE (IF /\ IsLetters(Head(words))
             /\ Head(words) \notin schema_cols
             /\ Head(words) \notin ShortWords
             /\ Head(words) \in Vocabulary
          THEN <<Head(words)>> ELSE <<>>)
         \o MissingTerms(Tail(words), schema_cols)
\* a faulty checker, which never looks at the schema
missing_fields_ignoring_schema(question, schema) == MissingTerms(Lower(question), {})
\* ReflectionEngine.detect_missing_fields
detect_missing_fields(question, schema) ==
    MissingTerms(Lower(question), SchemaCols(schema))

(***************************************************************************)
(* Cache keys.  Each key is the md5 of parts joined by "|"; md5 is taken   *)
(* as injective, so the key is the joined text itself.                     *)
(***************************************************************************)
Bar == <<"|">>
\* ReflectionEngine._get_reflection_cache_key
_get_reflection_cache_key(question, sql_query, df, schema, addr) ==
    question \o Bar \o sql_query \o Bar \o <<_get_df_hash(df, addr)>> \o Bar \o schema
\* ReflectionEngine._get_semantic_cache_key
_get_semantic_cache_key(question, sql_query, schema, output_str) ==
    question \o Bar \o sql_query \o Bar \o schema \o Bar \o output_str
\* str(issues): the repr of a list of str
RECURSIVE ReprItems(_)
ReprItems(issues) ==
    IF issues = <<>> THEN <<>>
    ELSE <<"'">> \o Head(issues) \o <<"'">>
         \o (IF Len(issues) > 1 THEN <<", ">> ELSE <<>>) \o ReprItems(Tail(issues))
ReprList(issues) == <<"[">> \o ReprItems(issues) \o <<"]">>
\* ReflectionEngine._get_explanation_cache_key
_get_explanation_cache_key(issues, feedback, old_sql, new_sql) ==
    ReprList(issues) \o Bar \o Format(feedback) \o Bar \o old_sql \o Bar \o new_sql
\* cache_key of _get_column_distinct_values
ColumnCacheKey(table, column_name, limit) ==
    <<table, ":", column_name, "_", ToString(limit)>>

\* dict lookup/insert
Has(cache, key) == key \in DOMAIN cache
Put(cache, key, value) == [k \in DOMAIN cache \cup {key} |->
                              IF k = key THEN value ELSE cache[k]]
EmptyCache == [k \in {} |-> <<>>]

(***************************************************************************)
(* The backing store: two tables with different contents.  A query may     *)
(* also fail (no such column, database missing or locked).                 *)
(***************************************************************************)
Tables == {"transactions", "user_upload"}
DefaultLimit == 10
\* SELECT DISTINCT column FROM table LIMIT 10, nulls dropped; <<>> with
\* ok = FALSE when the column does not exist
StoreDistinct(table, column_name) ==
    CASE table = "transactions" /\ column_name = "region" ->
            [ok |-> TRUE, values |-> <<"North", "South", "East", "West">>]
      [] table = "user_upload" /\ column_name = "region" ->
            [ok |-> TRUE, values |-> <<"Nord", "Sud">>]
      [] table = "user_upload" /\ column_name = "ts" ->
            [ok |-> TRUE, values |-> <<"2024-01-05">>]
      [] table = "transactions" /\ column_name = "ts" ->
            [ok |-> TRUE, values |-> <<"2025-09-01", "2025-10-25">>]
      [] OTHER -> [ok |-> FALSE, values |-> <<>>]
\* SELECT MIN(ts), MAX(ts), COUNT of rows FROM table
StoreDateRange(table) ==
    IF table = "transactions" THEN <<"2025-09-01", " to ", "2025-10-25", " (500 total records)">>
    ELSE <<"2024-01-05", " to ", "2024-01-05", " (1 total records)">>

\* a faulty lookup, whose query names the default table, not self.table_name
lookup_in_default_table(cvc, table, column_name, limit, store_ok) ==
    LET cache_key == ColumnCacheKey(table, column_name, limit)
        got == StoreDistinct("transactions", column_name)
    IN IF Has(cvc, cache_key)
       THEN [ret |-> cvc[cache_key], cvc |-> cvc, queries |-> 0]
       ELSE IF store_ok /\ got.ok
       THEN [ret |-> got.values, cvc |-> Put(cvc, cache_key, got.values), queries |-> 1]
       ELSE [ret |-> <<>>, cvc |-> cvc, queries |-> 1]

\* a faulty lookup, which caches the empty list of a failed query
lookup_caching_failures(cvc, table, column_name, limit, store_ok) ==
    LET cache_key == ColumnCacheKey(table, column_name, limit)
        got == StoreDistinct(table, column_name)
    IN IF Has(cvc, cache_key)
       THEN [ret |-> cvc[cache_key], cvc |-> cvc, queries |-> 0]
       ELSE IF store_ok /\ got.ok
       THEN [ret |-> got.values, cvc |-> Put(cvc, cache_key, got.values), queries |-> 1]
       ELSE [ret |-> <<>>, cvc |-> Put(cvc, cache_key, <<>>), queries |-> 1]

\* ReflectionEngine._get_column_distinct_values
_get_column_distinct_values(cvc, table, column_name, limit, store_ok) ==
    LET cache_key == ColumnCacheKey(table, column_name, limit)
        got == StoreDistinct(table, column_name)
    IN IF Has(cvc, cache_key)
       THEN [ret |-> cvc[cache_key], cvc |-> cvc, queries |-> 0]
       ELSE IF store_ok /\ got.ok
       THEN [ret |-> got.values, cvc |-> Put(cvc, cache_key, got.values), queries |-> 1]
       ELSE [ret |-> <<>>, cvc |-> cvc, queries |-> 1]

\* a faulty summary, which formats whatever the failed query left behind
date_range_without_handler(table, store_ok) ==
    <<"\n- ", "Date", " range: ">> \o (IF store_ok THEN StoreDateRange(table) ELSE <<"None">>)

\* ReflectionEngine._get_date_range_stats
_get_date_range_stats(table, store_ok) ==
    IF store_ok THEN <<"\n- ", "Date", " range: ">> \o StoreDateRange(table) ELSE <<>>

(***************************************************************************)
(* The completion service.  A completion either fails (the call raises,    *)
(* or the message has no content) or is a text: a sequence of segments,    *)
(* each a fence marker, a piece of prose or a JSON document.               *)
(***************************************************************************)
\* a JSON document: its type, what `"feedback" in` / `"refined_sql" in`
\* answer on it, and for an object the two values; refined_sql is given
\* relative to the query of the request (see Resolve)
Body(jt, hasfb, hassql, fb, sql, words) ==
    [jt |-> jt, hasfb |-> hasfb, hassql |-> hassql, fb |-> fb, sql |-> sql,
     words |-> words]
NoBody == Body("none", FALSE, FALSE, NonStr, "nonstr", <<>>)
Fence(c) == [c |-> c, body |-> NoBody]
Prose(words) == [c |-> "prose", body |-> Body("none", FALSE, FALSE, NonStr, "nonstr", words)]
Json(body) == [c |-> "json", body |-> body]
Obj(fb, sql) == Json(Body("obj", TRUE, TRUE, fb, sql, <<>>))
Completion(raw) == [raises |-> FALSE, raw |-> raw]
Failure == [raises |-> TRUE, raw |-> <<>>]

OtherQuery ==
    <<"SELECT * FROM t", " ", "WHERE", " ", "region", " ", "=", " ", "'North'">>
\* a query with every blank doubled
RECURSIVE SpacedOut(_)
SpacedOut(s) ==
    IF s = <<>> THEN <<>>
    ELSE (IF Head(s) = " " THEN <<" ", " ">> ELSE <<Head(s)>>) \o SpacedOut(Tail(s))
\* the refined_sql value a completion carries, for the query it was asked about
Resolve(tag, sql_query) ==
    CASE tag = "same" -> Str(sql_query)
      [] tag = "lower" -> Str(Lower(sql_query))
      [] tag = "NULL" -> Str(<<"NULL">>)
      [] tag = "null" -> Str(<<"null">>)
      [] tag = "padded NULL" -> Str(<<" ", "NULL">>)
      [] tag = "empty" -> Str(<<>>)
      [] tag = "limit" -> Str(sql_query \o <<" ", "LIMIT", " ", "10">>)
      [] tag = "rewrite" -> Str(OtherQuery)
      [] tag = "literal" -> Str([i \in 1..Len(sql_query) |-> IF sql_query[i] = "'NY'" THEN "'ny'" ELSE sql_query[i]])
      [] tag = "spaced" -> Str(SpacedOut(sql_query))
      [] OTHER -> NonStr

IsFence(seg) == seg.c \in {"~~~json", "~~~"}
HasSeg(raw, c) == \E i \in 1..Len(raw) : raw[i].c = c
RECURSIVE AfterFirst(_, _)
AfterFirst(raw, c) ==
    IF raw = <<>> THEN <<>>
    ELSE IF Head(raw).c = c THEN Tail(raw) ELSE AfterFirst(Tail(raw), c)
RECURSIVE UntilFence(_)
UntilFence(raw) ==
    IF raw = <<>> \/ IsFence(Head(raw)) THEN <<>>
    ELSE <<Head(raw)>> \o UntilFence(Tail(raw))
\* lines 276-279: raw_output.split(fence)[1].split("~~~")[0].strip()
StripFences(raw) ==
    IF HasSeg(raw, "~~~json") THEN UntilFence(AfterFirst(raw, "~~~json"))
    ELSE IF HasSeg(raw, "~~~") THEN UntilFence(AfterFirst(raw, "~~~"))
    ELSE raw

\* the characters of a segment, for `"missing" in raw_output.lower()`
SegText(seg, sql_query) ==
    IF seg.c = "json"
    THEN (IF seg.body.hasfb THEN <<"feedback">> ELSE <<>>)
         \o (IF seg.body.hasfb /\ seg.body.jt = "obj" THEN Format(seg.body.fb) ELSE <<>>)
         \o (IF seg.body.hassql THEN <<"refined_sql">> ELSE <<>>)
         \o (IF seg.body.hassql /\ seg.body.jt = "obj"
             THEN Format(Resolve(seg.body.sql, sql_query)) ELSE <<>>)
         \o seg.body.words
    ELSE seg.body.words
RECURSIVE RawText(_, _)
RawText(raw, sql_query) ==
    IF raw = <<>> THEN <<>>
    ELSE SegText(Head(raw), sql_query) \o RawText(Tail(raw), sql_query)

\* json.loads(raw_output) succeeds on exactly one JSON document
Parses(raw) == Len(raw) = 1 /\ raw[1].c = "json"

ErrorFeedback == Str(<<"Semantic reflection encountered an error: ", "reason">>)
NoOpFeedback ==
    Str(<<"Query is already correct. Empty result is due to data availability.">>)
MissingFieldsFeedback ==
    Str(<<"The question seems to reference fields ", "not present",
          " in the schema. Please rephrase or use available columns.">>)
UnexpectedFeedback ==
    Str(<<"Reflection completed but response format was unexpected. Original query maintained.">>)
SemResult(feedback, refined_sql) == [feedback |-> feedback, refined_sql |-> refined_sql]

\* lines 292-303: the fallback for a completion that is not the expected JSON
KeywordFallback(raw, sql_query) ==
    IF In("missing", Lower(RawText(raw, sql_query)))
       \/ In("not present", Lower(RawText(raw, sql_query)))
    THEN SemResult(MissingFieldsFeedback, <<"NULL">>)
    ELSE SemResult(UnexpectedFeedback, sql_query)

\* a faulty handler, which gives up the query instead of keeping it
ServiceErrorGivesNull(sql_query) == SemResult(ErrorFeedback, <<"NULL">>)

\* lines 305-309: the outer handler
ServiceError(sql_query) == SemResult(ErrorFeedback, sql_query)

\* lines 267-309 of semantic_reflection: from the completion to the result
ParseCompletion(resp, sql_query) ==
    IF resp.raises THEN ServiceError(sql_query)
    ELSE LET raw == StripFences(resp.raw) IN
         IF ~Parses(raw) THEN KeywordFallback(raw, sql_query)
         ELSE LET b == raw[1].body
                  refined == Resolve(b.sql, sql_query)
              IN IF b.jt \notin {"obj", "list", "str"} THEN ServiceError(sql_query)
                 ELSE IF ~b.hasfb \/ ~b.hassql THEN KeywordFallback(raw, sql_query)
                 ELSE IF b.jt # "obj" \/ ~IsStr(refined) THEN ServiceError(sql_query)
                 ELSE IF ~_validate_sql_change(sql_query, refined.v)
                 THEN SemResult(NoOpFeedback, sql_query)
                 ELSE SemResult(b.fb, refined.v)

\* lines 199-204: the lookups of the filtered columns, one after the other
RECURSIVE LookupAll(_, _, _, _)
LookupAll(cvc, table, cols, store_ok) ==
    IF cols = {} THEN [cvc |-> cvc, found |-> {}, queries |-> 0]
    ELSE LET c == CHOOSE x \in cols : TRUE
             one == _get_column_distinct_values(cvc, table, c, DefaultLimit, store_ok)
             rest == LookupAll(one.cvc, table, cols \ {c}, store_ok)
         IN [cvc |-> rest.cvc,
             found |-> (IF one.ret # <<>> THEN {<<c, one.ret>>} ELSE {}) \cup rest.found,
             queries |-> one.queries + rest.queries]

\* ReflectionEngine.semantic_reflection.  env gives what the collaborators
\* do during this call.
semantic_reflection(sc, cvc, table, question, sql_query, schema, sample_output, env) ==
    LET output_str == OutputStr(sample_output)
        cache_key == _get_semantic_cache_key(question, sql_query, schema, output_str)
    IN IF Has(sc, cache_key)
       THEN [ret |-> sc[cache_key], sc |-> sc, cvc |-> cvc, llm |-> 0, store |-> 0,
             hit |-> TRUE, prompt_values |-> {}, key |-> cache_key]
       ELSE LET enrich == output_str = NoOutputMarker
                looked == IF enrich
                          THEN LookupAll(cvc, table,
                                         _extract_filtered_columns(sql_query),
                                         env.store_ok)
                          ELSE [cvc |-> cvc, found |-> {}, queries |-> 0]
                result == ParseCompletion(env.sem, sql_query)
            IN [ret |-> result, sc |-> Put(sc, cache_key, result), cvc |-> looked.cvc,
                llm |-> 1, store |-> looked.queries + (IF enrich THEN 1 ELSE 0),
                hit |-> FALSE, prompt_values |-> looked.found, key |-> cache_key]

\* a faulty handler, which hands back no text at all
ExplanationDropped == NonStr
ExplanationFailed == Str(<<"(Explanation generation failed: ", "reason", ")">>)
\* a faulty explanation stage, without the cache check of lines 323-325
explain_without_cache_check(ec, issues, feedback, old_sql, new_sql, sample_output, env) ==
    LET cache_key == _get_explanation_cache_key(issues, feedback, old_sql, new_sql)
        explanation == IF env.expl.raises THEN ExplanationFailed
                       ELSE Str(RawText(env.expl.raw, old_sql))
    IN [ret |-> explanation, ec |-> Put(ec, cache_key, explanation),
        llm |-> 1, hit |-> FALSE, key |-> cache_key]

\* a faulty explanation stage, whose cache key covers the sample rows too
explain_keyed_by_sample(ec, issues, feedback, old_sql, new_sql, sample_output, env) ==
    LET cache_key == _get_explanation_cache_key(issues, feedback, old_sql, new_sql)
                     \o Bar \o OutputStr(sample_output)
    IN IF Has(ec, cache_key)
       THEN [ret |-> ec[cache_key], ec |-> ec, llm |-> 0, hit |-> TRUE, key |-> cache_key]
       ELSE LET explanation == IF env.expl.raises THEN ExplanationFailed
                               ELSE Str(RawText(env.expl.raw, old_sql))
            IN [ret |-> explanation, ec |-> Put(ec, cache_key, explanation),
                llm |-> 1, hit |-> FALSE, key |-> cache_key]

\* ReflectionEngine.generate_reflection_explanation
generate_reflection_explanation(ec, issues, feedback, old_sql, new_sql, sample_output, env) ==
    LET cache_key == _get_explanation_cache_key(issues, feedback, old_sql, new_sql)
    IN IF Has(ec, cache_key)
       THEN [ret |-> ec[cache_key], ec |-> ec, llm |-> 0, hit |-> TRUE, key |-> cache_key]
       ELSE LET explanation == IF env.expl.raises THEN ExplanationFailed
                               ELSE Str(RawText(env.expl.raw, old_sql))
            IN [ret |-> explanation, ec |-> Put(ec, cache_key, explanation),
                llm |-> 1, hit |-> FALSE, key |-> cache_key]

(***************************************************************************)
(* reflect                                                                 *)
(***************************************************************************)
Verdict(issues, feedback, refined_sql, explanation) ==
    [issues |-> issues, feedback |-> feedback, refined_sql |-> refined_sql,
     explanation |-> explanation]
NoVerdict == Verdict(<<>>, NonStr, <<>>, NonStr)

AutoFixFeedback ==
    Str(<<"Detected negative totals from refunds -> added ABS() around SUM() for correction.">>)
RECURSIVE AsTexts(_)
AsTexts(words) == IF words = <<>> THEN <<>> ELSE <<<<Head(words)>>>> \o AsTexts(Tail(words))
StaticFeedback(missing_terms) ==
    Str(<<"The question references ", "missing", " field(s): ">>
        \o ReprList(AsTexts(missing_terms))
        \o <<". Please rephrase or use available fields.">>)
DateExplanation(date_info) ==
    Str(<<"The query returned no results because there's no data from the requested time period in the database.">>
        \o date_info
        \o <<" Please adjust your ", "date", " filter to match the available data range.">>)
GenericExplanation ==
    Str(<<"There's no matching data for your query criteria. ",
          "This could be because the filtered value ", "doesn't exist",
          " in the database, or a referenced field is not in the schema. ",
          "Try checking available values or rephrasing your question using fields like 'product_name', 'category', or 'region'.">>)
ValueKeywords == {"doesn't exist", "not present", "no region", "no product"}

\* what one call of reflect did: whether it raised, what it returned, the
\* caches it leaves, and what it called on the way
Outcome(raised, ret, rc, ec, sc, cvc, llm, store, obs) ==
    [raised |-> raised, ret |-> ret, rc |-> rc, ec |-> ec, sc |-> sc, cvc |-> cvc,
     llm |-> llm, store |-> store, obs |-> obs]
\* the completion-service calls of one reflect call, in the order made
Calls(sem_calls, expl_calls) ==
    [i \in 1..(sem_calls + expl_calls) |-> IF i <= sem_calls THEN "semantic" ELSE "explanation"]
Obs(hit, detected, path, sem_ran, sem_hit, sem_ret, expl_runs, expl_hit, static_ran, prompt_values, calls) ==
    [hit |-> hit, detected |-> detected, path |-> path, sem_ran |-> sem_ran,
     sem_hit |-> sem_hit, sem_ret |-> sem_ret, expl_runs |-> expl_runs,
     expl_hit |-> expl_hit, static_ran |-> static_ran, prompt_values |-> prompt_values,
     calls |-> calls]
NoSem == SemResult(NonStr, <<>>)

\* a faulty Stage 1, which returns the verdict without caching it
StageOneWithoutCaching(rc, ec, sc, cvc, cache_key, issues, sql_query, sample_output, env) ==
    LET fixed_sql == SubSumAbs(sql_query)
        ex == generate_reflection_explanation(ec, issues, AutoFixFeedback, sql_query,
                                              fixed_sql, sample_output, env)
        result == Verdict(issues, AutoFixFeedback, fixed_sql, ex.ret)
    IN Outcome(FALSE, result, rc, ex.ec, sc, cvc, ex.llm, 0,
               Obs(FALSE, issues, "autofix", FALSE, FALSE, NoSem,
                   <<[issues |-> issues, feedback |-> AutoFixFeedback,
                      old_sql |-> sql_query, new_sql |-> fixed_sql]>>,
                   ex.hit, FALSE, {}, Calls(0, ex.llm)))

\* lines 384-403: Stage 1, the negative totals auto-fix
StageOne(rc, ec, sc, cvc, cache_key, issues, sql_query, sample_output, env) ==
    LET fixed_sql == SubSumAbs(sql_query)
        ex == generate_reflection_explanation(ec, issues, AutoFixFeedback, sql_query,
                                              fixed_sql, sample_output, env)
        result == Verdict(issues, AutoFixFeedback, fixed_sql, ex.ret)
    IN Outcome(FALSE, result, Put(rc, cache_key, result), ex.ec, sc, cvc, ex.llm, 0,
               Obs(FALSE, issues, "autofix", FALSE, FALSE, NoSem,
                   <<[issues |-> issues, feedback |-> AutoFixFeedback,
                      old_sql |-> sql_query, new_sql |-> fixed_sql]>>,
                   ex.hit, FALSE, {}, Calls(0, ex.llm)))

\* lines 425-453: the explanation of a NULL verdict, the verdict and its
\* caching; line 429 calls feedback.lower() on a value that may be no str
AfterExplanation(rc, cache_key, issues, table, question, sql_query, env, sem, static_ran, feedback, refined_sql, ex) ==
    LET isnull == Upper(Strip(refined_sql)) = <<"NULL">>
        has2023 == In("2023", Lower(question))
        raise2 == isnull /\ ~has2023 /\ ~IsStr(feedback)
        datebranch == isnull /\ (has2023 \/ (IsStr(feedback) /\ In("date", Lower(feedback.v))))
        date_info == _get_date_range_stats(table, env.store_ok)
        explanation ==
            IF ~isnull THEN ex.ret
            ELSE IF datebranch
                 THEN (IF date_info # <<>> THEN DateExplanation(date_info) ELSE feedback)
            ELSE IF \E kw \in ValueKeywords : In(kw, Lower(feedback.v))
                 THEN feedback
            ELSE GenericExplanation
        asked == [issues |-> issues, feedback |-> feedback, old_sql |-> sql_query,
                  new_sql |-> refined_sql]
        obs == Obs(FALSE, issues, "semantic", TRUE, sem.hit, sem.ret, <<asked>>, ex.hit,
                   static_ran, sem.prompt_values, Calls(sem.llm, ex.llm))
    IN IF raise2
       THEN Outcome(TRUE, NoVerdict, rc, ex.ec, sem.sc, sem.cvc, sem.llm + ex.llm,
                    sem.store, obs)
       ELSE CHOOSE out \in
                {Outcome(FALSE, result, Put(rc, cache_key, result), ex.ec, sem.sc, sem.cvc,
                         sem.llm + ex.llm, sem.store + (IF datebranch THEN 1 ELSE 0), obs) :
                     result \in {Verdict(issues, feedback, refined_sql, explanation)}} : TRUE

\* lines 412-423: the static override, then the explanation request
AfterStaticCheck(rc, ec, cache_key, issues, table, question, sql_query, sample_output, env, sem, static_ran, missing_terms) ==
    LET override == static_ran /\ missing_terms # <<>>
    IN CHOOSE out \in
           {AfterExplanation(rc, cache_key, issues, table, question, sql_query, env, sem,
                             static_ran, feedback, refined_sql,
                             generate_reflection_explanation(ec, issues, feedback, sql_query,
                                                             refined_sql, sample_output, env)) :
                feedback \in {IF override THEN StaticFeedback(missing_terms)
                              ELSE sem.ret.feedback},
                refined_sql \in {IF override THEN <<"NULL">> ELSE sem.ret.refined_sql}} : TRUE

\* lines 408-411: the semantic result and the condition of the static check;
\* line 411 calls feedback.lower() on a value that may be no str
AfterSemantic(rc, ec, cache_key, issues, table, question, sql_query, schema, sample_output, env, sem) ==
    LET same == Upper(Strip(sem.ret.refined_sql)) = Upper(Strip(sql_query))
    IN IF same /\ ~IsStr(sem.ret.feedback)
       THEN Outcome(TRUE, NoVerdict, rc, ec, sem.sc, sem.cvc, sem.llm, sem.store,
                    Obs(FALSE, issues, "semantic", TRUE, sem.hit, sem.ret, <<>>, FALSE,
                        FALSE, sem.prompt_values, Calls(sem.llm, 0)))
       ELSE CHOOSE out \in
                {AfterStaticCheck(rc, ec, cache_key, issues, table, question, sql_query,
                                  sample_output, env, sem, static_ran, missing_terms) :
                     static_ran \in {same /\ ~In("missing", Lower(sem.ret.feedback.v))},
                     missing_terms \in {detect_missing_fields(question, schema)}} : TRUE

\* a faulty Stage 2, which asks the service a second time when the query
\* came back unchanged
StageTwoWithSecondRound(rc, ec, sc, cvc, cache_key, issues, table, question, sql_query, schema, sample_output, env) ==
    CHOOSE out \in
        {AfterSemantic(rc, ec, cache_key, issues, table, question, sql_query, schema,
                       sample_output, env,
                       IF sem.llm = 1 /\ sem.ret.refined_sql = sql_query
                       THEN [sem EXCEPT !.llm = 2] ELSE sem) :
             sem \in {semantic_reflection(sc, cvc, table, question, sql_query, schema,
                                          sample_output, env)}} : TRUE

\* lines 405-453: Stage 2, semantic reasoning, the static fallback and the
\* explanation
StageTwo(rc, ec, sc, cvc, cache_key, issues, table, question, sql_query, schema, sample_output, env) ==
    CHOOSE out \in
        {AfterSemantic(rc, ec, cache_key, issues, table, question, sql_query, schema,
                       sample_output, env, sem) :
             sem \in {semantic_reflection(sc, cvc, table, question, sql_query, schema,
                                          sample_output, env)}} : TRUE

\* ReflectionEngine.reflect
reflect(rc, ec, sc, cvc, table, question, sql_query, df, schema, env) ==
    LET cache_key == _get_reflection_cache_key(question, sql_query, df, schema, env.addr)
    IN IF Has(rc, cache_key)
       THEN Outcome(FALSE, rc[cache_key], rc, ec, sc, cvc, 0, 0,
                    Obs(TRUE, <<>>, "cached", FALSE, FALSE, NoSem, <<>>, FALSE, FALSE, {}, <<>>))
       ELSE IF DetectorRaises(df)
       THEN Outcome(TRUE, NoVerdict, rc, ec, sc, cvc, 0, 0,
                    Obs(FALSE, <<>>, "detector", FALSE, FALSE, NoSem, <<>>, FALSE, FALSE, {}, <<>>))
       ELSE LET issues == detect_output_anomalies(df)
                sample_output == SampleOutput(df)
            IN IF \E n \in 1..Len(issues) : In("Negative", issues[n])
               THEN StageOne(rc, ec, sc, cvc, cache_key, issues, sql_query,
                             sample_output, env)
               ELSE StageTwo(rc, ec, sc, cvc, cache_key, issues, table, question,
                             sql_query, schema, sample_output, env)

\* ReflectionEngine.get_cache_stats
get_cache_stats(rc, ec, sc, cvc) ==
    [reflection_cache_size |-> Cardinality(DOMAIN rc),
     explanation_cache_size |-> Cardinality(DOMAIN ec),
     semantic_cache_size |-> Cardinality(DOMAIN sc),
     column_values_cache_size |-> Cardinality(DOMAIN cvc),
     total_cached_items |-> Cardinality(DOMAIN rc) + Cardinality(DOMAIN ec)
                            + Cardinality(DOMAIN sc) + Cardinality(DOMAIN cvc)]

(***************************************************************************)
(* The inputs of the runs.                                                 *)
(***************************************************************************)
Request(question, sql_query, df, schema) ==
    [question |-> question, sql_query |-> sql_query, df |-> df, schema |-> schema]

QRevenue == <<"total", " ", "revenue">>
QColor == <<"sales", " ", "by", " ", "color">>
Q2023 == <<"sales", " ", "in", " ", "2023">>
QNY == <<"sales", " ", "in", " ", "NY">>

Schema1 == <<"region", " ", "(TEXT)", "\n", "revenue", " ", "(REAL)", "\n", "ts", " ", "(TEXT)">>

SqlSum == <<"SELECT", " ", "SUM", "(", "revenue", ")", " ", "FROM t">>
SqlSumLower == <<"select", " ", "sum", "(", "revenue", ")", " ", "from t">>
SqlSumNested ==
    <<"SELECT", " ", "SUM", "(", "ROUND", "(", "revenue", ")", " ", "*", " ", "2", ")",
      " ", "FROM t">>
SqlTwoSums ==
    <<"SELECT", " ", "SUM", "(", "revenue", ")", ",", " ", "Sum", "(", "qty", ")", " ",
      "FROM t">>
SqlPlain == <<"SELECT * FROM t">>
SqlWhereNY == <<"SELECT * FROM t", " ", "WHERE", " ", "region", " ", "=", " ", "'NY'">>
SqlWhereNYTight == <<"SELECT * FROM t", " ", "WHERE", " ", "region", "=", "'NY'">>
SqlLike2023 == <<"SELECT * FROM t", " ", "WHERE", " ", "ts", " ", "LIKE", " ", "'2023%'">>

DfEmpty == DataFrame(<<Col("region", "obj"), Col("revenue", "num")>>, <<>>)
DfEmptyNum == DataFrame(<<Col("revenue", "num")>>, <<>>)
DfNeg == DataFrame(<<Col("revenue", "num")>>, << <<Num(-12500)>> >>)
DfPos == DataFrame(<<Col("revenue", "num")>>, << <<Num(100)>> >>)
DfMixed ==
    DataFrame(<<Col("region", "obj"), Col("revenue", "num")>>, << <<Txt("North"), Num(5)>> >>)
DfMixedNeg ==
    DataFrame(<<Col("region", "obj"), Col("revenue", "num")>>, << <<Txt("North"), Num(-5)>> >>)
\* results with one column that holds nulls only
DfNullNegative == DataFrame(<<Col("Negative", "num")>>, << <<Null>> >>)
DfNullRevenue == DataFrame(<<Col("revenue", "num")>>, << <<Null>> >>)

Works ==
    { {Request(QRevenue, SqlSum, DfNeg, Schema1), Request(QRevenue, SqlSum, DfPos, Schema1)},
      {Request(QRevenue, SqlSumLower, DfNeg, Schema1), Request(QRevenue, SqlTwoSums, DfNeg, Schema1)},
      {Request(QRevenue, SqlSumNested, DfNeg, Schema1), Request(QColor, SqlPlain, DfPos, Schema1)},
      {Request(QNY, SqlWhereNY, DfEmpty, Schema1), Request(QNY, SqlWhereNYTight, DfEmpty, Schema1)},
      {Request(Q2023, SqlLike2023, DfEmptyNum, Schema1), Request(QRevenue, SqlPlain, DfPos, Schema1)},
      {Request(QRevenue, SqlPlain, DfMixed, Schema1), Request(QRevenue, SqlPlain, DfMixedNeg, Schema1)},
      {Request(QRevenue, SqlSum, DfNullNegative, Schema1), Request(QRevenue, SqlSum, DfNullRevenue, Schema1)} }

FbCorrect == Str(<<"Query looks correct.">>)
FbMissing == Str(<<"Field is ", "Missing", " from the schema.">>)
FbDate == Str(<<"No data in that ", "date", " range.">>)
FbNoRegion == Str(<<"No region", " ", "NY", " exists in data.">>)

Menus ==
    { {Failure, Completion(<<Obj(FbCorrect, "same")>>), Completion(<<Obj(NonStr, "same")>>)},
      {Completion(<<Prose(<<"The query is fine.">>)>>),
       Completion(<<Prose(<<"A field is ", "missing", ".">>)>>),
       Completion(<<Json(Body("num", FALSE, FALSE, NonStr, "nonstr", <<>>))>>)},
      {Completion(<<Obj(FbNoRegion, "NULL")>>), Completion(<<Obj(FbCorrect, "null")>>),
       Completion(<<Obj(FbCorrect, "empty")>>), Completion(<<Obj(FbCorrect, "NULL")>>)},
      {Completion(<<Prose(<<"Here is the JSON:">>), Fence("~~~json"),
                    Obj(FbCorrect, "limit"), Fence("~~~")>>),
       Completion(<<Fence("~~~"), Obj(FbCorrect, "rewrite"), Fence("~~~")>>),
       Completion(<<Obj(FbDate, "NULL")>>)},
      {Completion(<<Json(Body("obj", TRUE, FALSE, FbMissing, "nonstr", <<>>))>>),
       Completion(<<Json(Body("list", TRUE, TRUE, NonStr, "nonstr", <<>>))>>),
       Completion(<<Obj(FbCorrect, "nonstr")>>)},
      {Completion(<<Obj(NonStr, "NULL")>>), Completion(<<Obj(FbMissing, "padded NULL")>>),
       Completion(<<Obj(FbCorrect, "lower")>>)} }

\* the completions of the explanation request
Explanations ==
    {Failure, Completion(<<Prose(<<"The correction makes the totals absolute.">>)>>)}

\* what the collaborators do during one call: the two completions, whether
\* the store answers, and where the allocator put the cells of df.values
Env(sem, expl, store_ok, addr) ==
    [sem |-> sem, expl |-> expl, store_ok |-> store_ok, addr |-> addr]
\* only an object array has cell addresses
Layouts(df) == IF Empty(df) \/ AllNumeric(df) THEN {1} ELSE 1..NumAddr

(***************************************************************************)
(* The state machine.                                                      *)
(***************************************************************************)
NoRequest == Request(<<>>, <<>>, DataFrame(<<>>, <<>>), <<>>)
NoObs == Obs(FALSE, <<>>, "none", FALSE, FALSE, NoSem, <<>>, FALSE, FALSE, {}, <<>>)
Stats == get_cache_stats(_reflection_cache, _explanation_cache, _semantic_cache, _column_values_cache)
\* refl, sem, expl: the inputs each stage has run on since the last
\* invalidation; ever: the requests reflect was ever called with; sampled:
\* the tables a distinct-values sample was ever taken from
NoSeen == [refl |-> {}, sem |-> {}, expl |-> {}, ever |-> {}, sampled |-> {}]
Observation(op, prior, req, table, raised, ret, llm, store, obs, before, after, prev, fresh) ==
    [op |-> op, prior |-> prior, req |-> req, table |-> table, raised |-> raised,
     ret |-> ret, llm |-> llm, store |-> store, obs |-> obs, before |-> before,
     after |-> after, prev |-> prev, fresh |-> fresh]
NoPrev == [known |-> FALSE, ret |-> NoVerdict]
NoFresh == [refl |-> FALSE, sem |-> FALSE, expl |-> FALSE, again |-> FALSE]

\* ReflectionEngine.__init__
Init ==
    /\ table_name = "transactions"
    /\ _reflection_cache = EmptyCache
    /\ _explanation_cache = EmptyCache
    /\ _semantic_cache = EmptyCache
    /\ _column_values_cache = EmptyCache
    /\ work \in Works
    /\ menu \in Menus
    /\ ops = 0
    /\ returned = EmptyCache
    /\ seen = NoSeen
    /\ last = Observation("init", "none", NoRequest, "transactions", FALSE, NoVerdict, 0, 0, NoObs,
                          get_cache_stats(EmptyCache, EmptyCache, EmptyCache, EmptyCache),
                          get_cache_stats(EmptyCache, EmptyCache, EmptyCache, EmptyCache),
                          NoPrev, NoFresh)

SemInput(req) ==
    [question |-> req.question, sql_query |-> req.sql_query, schema |-> req.schema,
     sample_output |-> SampleOutput(req.df)]

\* one call reflect(question, sql_query, df, schema)
ReflectCall(req, env) ==
    \E r \in {reflect(_reflection_cache, _explanation_cache, _semantic_cache,
                     _column_values_cache, table_name, req.question, req.sql_query,
                     req.df, req.schema, env)} :
    LET asked == {r.obs.expl_runs[n] : n \in 1..Len(r.obs.expl_runs)}
    IN /\ _reflection_cache' = r.rc
       /\ _explanation_cache' = r.ec
       /\ _semantic_cache' = r.sc
       /\ _column_values_cache' = r.cvc
       /\ table_name' = table_name
       /\ returned' = IF r.raised THEN returned ELSE Put(returned, req, r.ret)
       /\ seen' = [refl |-> seen.refl \cup {req},
                   sem |-> seen.sem \cup (IF r.obs.sem_ran THEN {SemInput(req)} ELSE {}),
                   expl |-> seen.expl \cup asked,
                   ever |-> seen.ever \cup {req},
                   sampled |-> seen.sampled \cup {k[1] : k \in DOMAIN r.cvc}]
       /\ last' = Observation("reflect", last.op, req, table_name, r.raised, r.ret, r.llm, r.store,
                              r.obs, Stats, get_cache_stats(r.rc, r.ec, r.sc, r.cvc),
                              IF Has(returned, req)
                              THEN [known |-> TRUE, ret |-> returned[req]] ELSE NoPrev,
                              [refl |-> req \notin seen.refl,
                               sem |-> r.obs.sem_ran /\ SemInput(req) \notin seen.sem,
                               expl |-> asked # {} /\ asked \cap seen.expl = {},
                               again |-> req \in seen.ever])

Reflect ==
    /\ ops < MaxOps
    /\ ops' = ops + 1
    /\ UNCHANGED <<work, menu>>
    /\ \E req \in work, sem \in menu, expl \in Explanations,
          store_ok \in BOOLEAN :
            \E addr \in Layouts(req.df) :
                ReflectCall(req, Env(sem, expl, store_ok, addr))

\* ReflectionEngine.set_table
set_table(name) ==
    /\ table_name' = name
    /\ _column_values_cache' = EmptyCache
    /\ _semantic_cache' = EmptyCache
    /\ UNCHANGED <<_reflection_cache, _explanation_cache>>

SetTable ==
    /\ ops < MaxOps
    /\ ops' = ops + 1
    /\ \E name \in Tables :
         /\ set_table(name)
         /\ last' = Observation("set_table", last.op, NoRequest, name, FALSE, NoVerdict, 0, 0, NoObs,
                                Stats,
                                get_cache_stats(_reflection_cache, _explanation_cache,
                                                EmptyCache, EmptyCache),
                                NoPrev, NoFresh)
    /\ seen' = [seen EXCEPT !.sem = {}]
    /\ UNCHANGED <<work, menu, returned>>

\* a faulty clear_cache, which forgets the reflection cache
clear_cache_keeping_reflections ==
    /\ _explanation_cache' = EmptyCache
    /\ _semantic_cache' = EmptyCache
    /\ _column_values_cache' = EmptyCache
    /\ UNCHANGED <<table_name, _reflection_cache>>

\* ReflectionEngine.clear_cache
clear_cache ==
    /\ _reflection_cache' = EmptyCache
    /\ _explanation_cache' = EmptyCache
    /\ _semantic_cache' = EmptyCache
    /\ _column_values_cache' = EmptyCache
    /\ UNCHANGED table_name

ClearCache ==
    /\ ops < MaxOps
    /\ ops' = ops + 1
    /\ clear_cache
    /\ last' = Observation("clear_cache", last.op, NoRequest, table_name, FALSE, NoVerdict, 0, 0,
                           NoObs, Stats,
                           get_cache_stats(_reflection_cache', _explanation_cache',
                                           _semantic_cache', _column_values_cache'),
                           NoPrev, NoFresh)
    /\ returned' = EmptyCache
    /\ seen' = [NoSeen EXCEPT !.ever = seen.ever, !.sampled = seen.sampled]
    /\ UNCHANGED <<work, menu>>

Next == Reflect \/ SetTable \/ ClearCache

Spec == Init /\ [][Next]_vars

(***************************************************************************)
(* The stages on their own: each step applies one stage of the engine to   *)
(* an input drawn from a bounded set and records what it gave.             *)
(***************************************************************************)
MaxRows == 2
UnitCols == {Col("region", "obj"), Col("revenue", "num"), Col("Negative", "num")}
CellsOf(col) ==
    IF col.dtype = "num" THEN {Num(-1), Num(1), Null}
    ELSE {Txt("North"), Txt("South"), Null}
Headers == {<<c>> : c \in UnitCols} \cup {<<c, d>> : c, d \in UnitCols}
RowsOf(cols) ==
    {r \in [1..Len(cols) -> UNION {CellsOf(c) : c \in UnitCols}] :
        \A j \in 1..Len(cols) : r[j] \in CellsOf(cols[j])}
FramesOver(cols) ==
    {DataFrame(cols, rows) : rows \in UNION {[1..n -> RowsOf(cols)] : n \in 0..MaxRows}}
DfFourRegions ==
    DataFrame(<<Col("region", "obj"), Col("revenue", "num")>>,
              << <<Txt("North"), Num(1)>>, <<Txt("South"), Num(1)>>,
                 <<Txt("East"), Num(1)>>, <<Txt("West"), Num(1)>> >>)
DfFourRegionsNeg ==
    DataFrame(<<Col("region", "obj"), Col("revenue", "num")>>,
              << <<Txt("North"), Num(1)>>, <<Txt("South"), Num(-1)>>,
                 <<Txt("East"), Num(1)>>, <<Txt("West"), Num(1)>> >>)
Frames == UNION {FramesOver(cols) : cols \in Headers} \cup {DfFourRegions, DfFourRegionsNeg}

UnitInit ==
    /\ table_name = "transactions"
    /\ _reflection_cache = EmptyCache
    /\ _explanation_cache = EmptyCache
    /\ _semantic_cache = EmptyCache
    /\ _column_values_cache = EmptyCache
    /\ work = {}
    /\ menu = {}
    /\ ops = 0
    /\ returned = EmptyCache
    /\ seen = NoSeen
    /\ last = [op |-> "init"]

UnitFrame ==
    UNCHANGED <<table_name, _reflection_cache, _explanation_cache, _semantic_cache,
                _column_values_cache, work, menu, returned, seen>>

\* one call detect_output_anomalies(df)
Detect ==
    /\ ops = 0
    /\ ops' = 1
    /\ UnitFrame
    /\ \E df \in Frames :
         last' = [op |-> "detect", df |-> df, raised |-> DetectorRaises(df),
                  issues |-> IF DetectorRaises(df) THEN <<>>
                             ELSE detect_output_anomalies(df)]

\* one call semantic_reflection(question, sql_query, schema, sample_output),
\* on an empty semantic cache or on one that holds the request's entry
UnitRequests == UNION Works
\* further completions: a JSON string that names both keys, texts that are
\* no JSON inside fences, an object short of a key, and proposals that
\* change the letter case of a literal or the blanks of the query
OddCompletions ==
    {Completion(<<Json(Body("str", TRUE, TRUE, NonStr, "nonstr", <<" is ", "missing">>))>>),
     Completion(<<Fence("~~~json"), Prose(<<"no JSON here">>), Fence("~~~")>>),
     Completion(<<Fence("~~~"), Json(Body("obj", TRUE, FALSE, FbMissing, "nonstr", <<>>)), Fence("~~~")>>),
     Completion(<<Fence("~~~json"), Obj(FbCorrect, "NULL"), Fence("~~~")>>),
     Completion(<<Obj(FbCorrect, "literal")>>),
     Completion(<<Obj(FbCorrect, "spaced")>>),
     Completion(<<Obj(FbNoRegion, "rewrite")>>)}
UnitCompletions == UNION Menus \cup OddCompletions
HeldResult == SemResult(Str(<<"Query looks correct.">>), <<"SELECT 1">>)
Semantic ==
    /\ ops = 0
    /\ ops' = 1
    /\ UnitFrame
    /\ \E req \in UnitRequests, resp \in UnitCompletions, held, store_ok \in BOOLEAN, table \in Tables :
         LET sample == SampleOutput(req.df)
             key == _get_semantic_cache_key(req.question, req.sql_query, req.schema, OutputStr(sample))
             sc == IF held THEN Put(EmptyCache, key, HeldResult) ELSE EmptyCache
         IN last' = [op |-> "semantic", req |-> req, resp |-> resp, held |-> held,
                     store_ok |-> store_ok, table |-> table,
                     r |-> semantic_reflection(sc, EmptyCache, table, req.question,
                                               req.sql_query, req.schema, sample,
                                               Env(resp, Failure, store_ok, 1))]

\* one call generate_reflection_explanation(issues, feedback, old_sql, new_sql,
\* sample_output), on an empty explanation cache or on one that holds the
\* request's entry
HeldExplanation == Str(<<"An earlier explanation.">>)
UnitIssues == {<<NoIssue>>, <<NegativeIssue>>, <<EmptyIssue>>, <<NegativeIssue, DuplicateIssue>>}
Explain ==
    /\ ops = 0
    /\ ops' = 1
    /\ UnitFrame
    /\ \E req \in UnitRequests, issues \in UnitIssues, expl \in Explanations, held \in BOOLEAN, feedback \in {FbCorrect, FbMissing, NonStr}, tag \in {"same", "NULL", "rewrite"} :
         LET new_sql == Resolve(tag, req.sql_query).v
             key == _get_explanation_cache_key(issues, feedback, req.sql_query, new_sql)
             ec == IF held THEN Put(EmptyCache, key, HeldExplanation) ELSE EmptyCache
         IN last' = [op |-> "explain", req |-> req, issues |-> issues, feedback |-> feedback,
                     new_sql |-> new_sql, expl |-> expl, held |-> held,
                     r |-> generate_reflection_explanation(ec, issues, feedback, req.sql_query,
                                                           new_sql, SampleOutput(req.df),
                                                           Env(Failure, expl, TRUE, 1))]

\* one call of each enrichment query; the column may be missing from the
\* table and the store may fail altogether
UnitColumns == {"region", "ts", "color"}
HeldValues == <<"North">>
Enrich ==
    /\ ops = 0
    /\ ops' = 1
    /\ UnitFrame
    /\ \E table \in Tables, column_name \in UnitColumns, store_ok, held \in BOOLEAN :
         LET cvc == IF held
                    THEN Put(EmptyCache, ColumnCacheKey(table, column_name, DefaultLimit), HeldValues)
                    ELSE EmptyCache
         IN last' = [op |-> "enrich", table |-> table, column_name |-> column_name,
                     store_ok |-> store_ok, held |-> held, cvc |-> cvc,
                     r |-> _get_column_distinct_values(cvc, table, column_name, DefaultLimit, store_ok),
                     dates |-> _get_date_range_stats(table, store_ok)]

\* one call detect_missing_fields(question, schema), on a schema rendered
\* as the callers render it: one line "name (TYPE)" per column
MaxWords == 3
UnitWords == {"color", "Color", "Size", "brand", "sales", "by"}
RECURSIVE RenderSchema(_)
RenderSchema(names) ==
    IF names = <<>> THEN <<>>
    ELSE <<Head(names), " ", "(TEXT)">>
         \o (IF Tail(names) = <<>> THEN <<>> ELSE <<"\n">> \o RenderSchema(Tail(names)))
RECURSIVE Sentence(_)
Sentence(words) ==
    IF words = <<>> THEN <<>>
    ELSE <<Head(words)>> \o (IF Tail(words) = <<>> THEN <<>> ELSE <<" ">> \o Sentence(Tail(words)))
UnitQuestions == UNION {[1..n -> UnitWords] : n \in 1..MaxWords}
UnitSchemas == {<<>>, <<"color">>, <<"Size">>, <<"region", "color">>, <<"region", "Size", "color">>, <<"region">>}
CheckFields ==
    /\ ops = 0
    /\ ops' = 1
    /\ UnitFrame
    /\ \E words \in UnitQuestions, names \in UnitSchemas :
         last' = [op |-> "fields", words |-> words, names |-> names,
                  terms |-> detect_missing_fields(Sentence(words), RenderSchema(names))]

\* one call semantic_reflection for a result set, on a semantic cache that
\* holds the entry made for the same question, query and schema with an
\* earlier result set
DfFourRegionsLater ==
    DataFrame(<<Col("region", "obj"), Col("revenue", "num")>>,
              << <<Txt("North"), Num(1)>>, <<Txt("South"), Num(1)>>,
                 <<Txt("East"), Num(1)>>, <<Txt("West"), Num(2)>> >>)
ResultSets == {DfPos, DfMixed, DfNullRevenue, DfFourRegions, DfFourRegionsLater}
SemanticAgain ==
    /\ ops = 0
    /\ ops' = 1
    /\ UnitFrame
    /\ \E req \in UnitRequests, first, second \in ResultSets, resp \in {Failure, Completion(<<Obj(FbCorrect, "same")>>)} :
         LET earlier == _get_semantic_cache_key(req.question, req.sql_query, req.schema,
                                                OutputStr(SampleOutput(first)))
             sc == Put(EmptyCache, earlier, HeldResult)
         IN last' = [op |-> "semantic again", req |-> req, first |-> first, second |-> second,
                     resp |-> resp,
                     r |-> semantic_reflection(sc, EmptyCache, "transactions", req.question,
                                               req.sql_query, req.schema, SampleOutput(second),
                                               Env(resp, Failure, TRUE, 1))]

\* two calls generate_reflection_explanation in a row with the same issues,
\* feedback and queries, each with its own sample rows and its own answer of
\* the service
ExplainAgain ==
    /\ ops = 0
    /\ ops' = 1
    /\ UnitFrame
    /\ \E req \in UnitRequests, issues \in {<<NoIssue>>, <<NegativeIssue>>}, first, second \in ResultSets, e1, e2 \in Explanations, feedback \in {FbCorrect, NonStr}, tag \in {"same", "NULL"} :
         \E r1 \in {generate_reflection_explanation(EmptyCache, issues, feedback, req.sql_query,
                                                    Resolve(tag, req.sql_query).v,
                                                    SampleOutput(first), Env(Failure, e1, TRUE, 1))} :
             last' = [op |-> "explain again", req |-> req, issues |-> issues,
                      feedback |-> feedback, first |-> first, second |-> second,
                      e1 |-> e1, e2 |-> e2, r1 |-> r1,
                      r2 |-> generate_reflection_explanation(r1.ec, issues, feedback,
                                                             req.sql_query,
                                                             Resolve(tag, req.sql_query).v,
                                                             SampleOutput(second),
                                                             Env(Failure, e2, TRUE, 1))]

\* each stage called twice in a row with the same inputs: the first time the
\* service or the store fails, the second time it may answer
Retry ==
    /\ ops = 0
    /\ ops' = 1
    /\ UnitFrame
    /\ \E req \in UnitRequests, resp \in {Failure, Completion(<<Obj(FbCorrect, "NULL")>>)}, expl \in Explanations, table \in Tables, column_name \in UnitColumns, store_ok \in BOOLEAN :
         \E s1 \in {semantic_reflection(EmptyCache, EmptyCache, table, req.question,
                                        req.sql_query, req.schema, SampleOutput(req.df),
                                        Env(Failure, Failure, FALSE, 1))},
            x1 \in {generate_reflection_explanation(EmptyCache, <<NoIssue>>, FbCorrect,
                                                    req.sql_query, req.sql_query,
                                                    SampleOutput(req.df),
                                                    Env(Failure, Failure, FALSE, 1))},
            l1 \in {_get_column_distinct_values(EmptyCache, table, column_name, DefaultLimit, FALSE)} :
             last' = [op |-> "retry", req |-> req, resp |-> resp, expl |-> expl,
                      table |-> table, column_name |-> column_name, store_ok |-> store_ok,
                      s1 |-> s1, x1 |-> x1, l1 |-> l1,
                      s2 |-> semantic_reflection(s1.sc, s1.cvc, table, req.question,
                                                 req.sql_query, req.schema,
                                                 SampleOutput(req.df),
                                                 Env(resp, expl, store_ok, 1)),
                      x2 |-> generate_reflection_explanation(x1.ec, <<NoIssue>>, FbCorrect,
                                                             req.sql_query, req.sql_query,
                                                             SampleOutput(req.df),
                                                             Env(resp, expl, store_ok, 1)),
                      l2 |-> _get_column_distinct_values(l1.cvc, table, column_name,
                                                         DefaultLimit, store_ok)]

\* two reflect calls in a row on the same result, the first on empty caches;
\* the texts may hold the "|" that joins the parts of the cache key
BarQuestions == {<<"sales">>, <<"sales", "|", "revenue">>, <<"sales", " ", "revenue">>}
BarQueries == {<<"SELECT 1">>, <<"revenue", "|", "SELECT 1">>, <<"SELECT 2">>}
BarSchemas == {Schema1, <<"region", " ", "(TEXT)">>}
ReflectAgain ==
    /\ ops = 0
    /\ ops' = 1
    /\ UnitFrame
    /\ \E q1, q2 \in BarQuestions, s1, s2 \in BarQueries, c1, c2 \in BarSchemas, df \in {DfPos, DfEmptyNum}, sem \in {Failure, Completion(<<Obj(FbCorrect, "NULL")>>)} :
         \E r1 \in {reflect(EmptyCache, EmptyCache, EmptyCache, EmptyCache, "transactions",
                            q1, s1, df, c1, Env(sem, Failure, TRUE, 1))} :
             last' = [op |-> "reflect again",
                      first |-> Request(q1, s1, df, c1), second |-> Request(q2, s2, df, c2),
                      k1 |-> _get_reflection_cache_key(q1, s1, df, c1, 1),
                      k2 |-> _get_reflection_cache_key(q2, s2, df, c2, 1),
                      r1 |-> [ret |-> r1.ret, raised |-> r1.raised],
                      r2 |-> reflect(r1.rc, r1.ec, r1.sc, r1.cvc, "transactions",
                                     q2, s2, df, c2, Env(sem, Failure, TRUE, 1))]

UnitNext == Detect \/ Semantic \/ Explain \/ Enrich \/ CheckFields \/ SemanticAgain \/ ExplainAgain \/ Retry \/ ReflectAgain

UnitSpec == UnitInit /\ [][UnitNext]_vars

(***************************************************************************)
(* Properties of the engine.                                               *)
(***************************************************************************)
ZeroStats == get_cache_stats(EmptyCache, EmptyCache, EmptyCache, EmptyCache)
VerdictFields == {"issues", "feedback", "refined_sql", "explanation"}
\* every entry of cache c is still in d, with the same value
Kept(c, d) == \A k \in DOMAIN c : k \in DOMAIN d /\ d[k] = c[k]
Values(list) == {list[i] : i \in 1..Len(list)}

\* C1: every call of reflect returns a verdict with the four fields issues,
\* feedback, refined_sql and explanation and raises no exception, whatever
\* the completion service and the backing store do.
C1_ReflectAlwaysReturnsVerdict ==
    last.op = "reflect" =>
        /\ ~last.raised
        /\ DOMAIN last.ret = VerdictFields

\* C2: a second call of reflect with the same (question, query, result,
\* schema), with no clear_cache in between, returns the verdict the first
\* call returned, calls neither the completion service nor the backing
\* store, and leaves every count of get_cache_stats unchanged.
C2_SecondCallAnsweredFromCache ==
    (last.op = "reflect" /\ last.prev.known) =>
        /\ ~last.raised
        /\ last.ret = last.prev.ret
        /\ last.llm = 0
        /\ last.store = 0
        /\ last.after = last.before

\* the position of the ")" that closes the "(" before position i (depth
\* counts the parentheses opened since), or 0
RECURSIVE ClosingParen(_, _, _)
ClosingParen(s, i, depth) ==
    IF i > Len(s) THEN 0
    ELSE IF s[i] = "(" THEN ClosingParen(s, i + 1, depth + 1)
    ELSE IF s[i] = ")" THEN (IF depth = 0 THEN i ELSE ClosingParen(s, i + 1, depth - 1))
    ELSE ClosingParen(s, i + 1, depth)
\* the query with every call SUM(expr), in any letter case, replaced by
\* SUM(ABS(expr)), expr being the whole argument of the call
RECURSIVE EverySumAbs(_)
EverySumAbs(s) ==
    IF s = <<>> THEN <<>>
    ELSE LET close == ClosingParen(s, 3, 0) IN
         IF UpperChunk(Head(s)) = "SUM" /\ Len(s) >= 4 /\ s[2] = "(" /\ close > 3
         THEN <<"SUM", "(", "ABS", "(">> \o SubSeq(s, 3, close - 1)
              \o <<")", ")">> \o EverySumAbs(SubSeq(s, close + 1, Len(s)))
         ELSE <<Head(s)>> \o EverySumAbs(Tail(s))

\* C3: for a result with a negative value in a numeric column, reflect
\* returns an issues list containing the negative-value anomaly and a
\* refined_sql equal to the query with every SUM(expr) replaced by
\* SUM(ABS(expr)) and nothing else changed.
C3_NegativeTotalsWrapEverySum ==
    (last.op = "reflect" /\ HasNegative(last.req.df)) =>
        /\ ~last.raised
        /\ NegativeIssue \in Values(last.ret.issues)
        /\ last.ret.refined_sql = EverySumAbs(last.req.sql_query)

\* C4: in every verdict reflect returns, refined_sql is never the empty
\* string, and when it is the sentinel it is exactly the text NULL: no other
\* letter case, no surrounding whitespace.
C4_RefinedSqlIsQueryOrSentinel ==
    (last.op = "reflect" /\ ~last.raised) =>
        /\ Strip(last.ret.refined_sql) # <<>>
        /\ (Upper(Strip(last.ret.refined_sql)) = <<"NULL">>
               => last.ret.refined_sql = <<"NULL">>)

\* C5: each stage count of get_cache_stats (reflection, semantic,
\* explanation) grows by exactly one when the stage runs on an input
\* combination not seen since the last invalidation, and does not change
\* when the stage runs on a combination already seen.
C5_CountsFollowNewInputs ==
    last.op = "reflect" =>
        /\ last.after.reflection_cache_size - last.before.reflection_cache_size
               = (IF last.fresh.refl THEN 1 ELSE 0)
        /\ last.obs.sem_ran =>
               last.after.semantic_cache_size - last.before.semantic_cache_size
                   = (IF last.fresh.sem THEN 1 ELSE 0)
        /\ last.obs.expl_runs # <<>> =>
               last.after.explanation_cache_size - last.before.explanation_cache_size
                   = (IF last.fresh.expl THEN 1 ELSE 0)

\* C6: after clear_cache every per-stage count and the total of
\* get_cache_stats are zero, and the next reflect call, also one with an
\* input seen before, is a miss: the pipeline runs again.
C6_ClearCacheResetsEverything ==
    /\ last.op = "clear_cache" => (last.after = ZeroStats /\ Stats = ZeroStats)
    /\ (last.op = "reflect" /\ last.prior = "clear_cache") =>
           /\ last.before = ZeroStats
           /\ ~last.obs.hit
           /\ last.obs.path \in {"autofix", "semantic"}
           /\ last.llm >= 1
\* C6 witness: a request reflected before the clear_cache is reflected right
\* after it, and the pipeline has run
C6_SeenInputReflectedAfterClear ==
    /\ last.op = "reflect"
    /\ last.prior = "clear_cache"
    /\ last.fresh.again
    /\ last.llm >= 1

\* C7: for an empty result whose query filters region on the value NY, which
\* the sample of the active table's column does not list, the verdict has
\* refined_sql equal to the sentinel NULL.
C7_AbsentFilterValueGivesNull ==
    (/\ last.op = "reflect"
     /\ Empty(last.req.df)
     /\ last.req.sql_query \in {SqlWhereNY, SqlWhereNYTight}
     /\ "NY" \notin Values(StoreDistinct(last.table, "region").values)) =>
        /\ ~last.raised
        /\ last.ret.refined_sql = <<"NULL">>

\* C8: a distinct-values sample taken while one table was active is neither
\* held by the column-value cache nor placed in a semantic-reflection
\* request while another table is active: every cached sample and every
\* sample in a request is the active table's.
C8_SamplesBelongToActiveTable ==
    /\ \A k \in DOMAIN _column_values_cache :
           /\ k[1] = table_name
           /\ _column_values_cache[k] = StoreDistinct(table_name, k[3]).values
    /\ last.op = "reflect" =>
           \A pv \in last.obs.prompt_values :
               pv[2] = StoreDistinct(last.table, pv[1]).values
\* C8 witness: a request carries a sample of user_upload after a sample was
\* taken from transactions
C8_SampleTakenAfterTableSwitch ==
    /\ last.op = "reflect"
    /\ last.table = "user_upload"
    /\ "transactions" \in seen.sampled
    /\ last.obs.prompt_values # {}
    /\ DOMAIN _column_values_cache # {}

\* C9: an entry of the reflection, semantic or explanation cache is never
\* overwritten with another value and never removed by reflect; set_table
\* removes only entries of the table-scoped caches.
C9_CacheEntriesAreStable ==
    [][/\ last'.op = "reflect" =>
              /\ Kept(_reflection_cache, _reflection_cache')
              /\ Kept(_semantic_cache, _semantic_cache')
              /\ Kept(_explanation_cache, _explanation_cache')
       /\ last'.op = "set_table" =>
              /\ Kept(_reflection_cache, _reflection_cache')
              /\ Kept(_explanation_cache, _explanation_cache')]_vars
\* C9 witness: reflect ran the semantic and the explanation stage on
\* fingerprints their caches already held
C9_StagesRanOnHeldFingerprints ==
    /\ last.op = "reflect"
    /\ ~last.obs.hit
    /\ last.obs.sem_hit
    /\ last.obs.expl_hit

\* C10: for an empty result the anomaly detector returns exactly one issue,
\* the empty-result issue, whatever columns the result has.
C10_EmptyResultHasOneIssue ==
    (last.op = "reflect" /\ ~last.obs.hit /\ Empty(last.req.df)) =>
        /\ last.obs.detected = <<EmptyIssue>>
        /\ ~last.raised => last.ret.issues = <<EmptyIssue>>
\* C10 witness: the detector ran on an empty result that has a region column
C10_DetectorRanOnEmptyRegionResult ==
    /\ last.op = "reflect"
    /\ ~last.obs.hit
    /\ Empty(last.req.df)
    /\ ColIndex(last.req.df, "region") # {}
    /\ last.obs.detected # <<>>

\* the issues that apply to a result, in the order negative values,
\* duplicate rows, null-only columns, coverage gap
Applicable(df) ==
    (IF \E j \in 1..NCols(df), r \in 1..NRows(df) :
            df.cols[j].dtype = "num" /\ df.rows[r][j].k = "int" /\ df.rows[r][j].i < 0
     THEN <<NegativeIssue>> ELSE <<>>)
 \o (IF \E r1, r2 \in 1..NRows(df) : r1 # r2 /\ df.rows[r1] = df.rows[r2]
     THEN <<DuplicateIssue>> ELSE <<>>)
 \o (IF \E j \in 1..NCols(df) : \A r \in 1..NRows(df) : df.rows[r][j].k = "null"
     THEN <<NullIssue(NullCols(df))>> ELSE <<>>)
 \o (IF \E j \in 1..NCols(df) :
            /\ df.cols[j].name = "region"
            /\ Cardinality({df.rows[r][j] : r \in 1..NRows(df)}) < 4
     THEN <<RegionIssue>> ELSE <<>>)

\* C11: for a non-empty result the anomaly detector returns a non-empty list
\* holding exactly the applicable issues in the order negative values,
\* duplicate rows, null-only columns, coverage gap; the no-anomalies
\* sentinel is returned exactly when none applies, and alone.
C11_DetectorListsApplicableIssues ==
    (last.op = "detect" /\ ~Empty(last.df)) =>
        /\ ~last.raised
        /\ last.issues # <<>>
        /\ last.issues = (IF Applicable(last.df) = <<>> THEN <<NoIssue>>
                          ELSE Applicable(last.df))

\* C12: when the completion-service call of semantic reflection fails,
\* semantic_reflection returns a result whose refined_sql is the original
\* query unchanged and whose feedback names the failure.
C12_ServiceFailureKeepsQuery ==
    (last.op = "semantic" /\ ~last.held /\ last.resp.raises) =>
        /\ last.r.llm = 1
        /\ last.r.ret.refined_sql = last.req.sql_query
        /\ IsStr(last.r.ret.feedback)
        /\ last.r.ret.feedback.v = <<"Semantic reflection encountered an error: ", "reason">>
\* C12 witness: the service failed on a query with a filter and the original
\* query came back
C12_FailedCallOnFilteredQuery ==
    /\ last.op = "semantic"
    /\ ~last.held
    /\ last.resp.raises
    /\ last.req.sql_query = SqlWhereNY
    /\ last.r.ret.refined_sql = SqlWhereNY

\* C13: when the completion-service call of the explanation generator fails,
\* generate_reflection_explanation returns a placeholder string that names
\* the failure.
C13_ExplanationFailureGivesPlaceholder ==
    (last.op = "explain" /\ ~last.held /\ last.expl.raises) =>
        /\ last.r.llm = 1
        /\ IsStr(last.r.ret)
        /\ last.r.ret.v = <<"(Explanation generation failed: ", "reason", ")">>
\* C13 witness: the explanation call failed for a rewritten query with a
\* negative-value issue
C13_FailedExplanationOfRewrite ==
    /\ last.op = "explain"
    /\ ~last.held
    /\ last.expl.raises
    /\ last.issues = <<NegativeIssue>>
    /\ last.new_sql = OtherQuery
    /\ IsStr(last.r.ret)

\* C14: the context enricher never raises: when the backing-store query fails
\* (the store is unavailable, or the column does not exist in the table), the
\* column-value lookup returns an empty list and caches nothing, and the
\* date-range summary returns the empty string.
C14_StoreFailureYieldsEmpty ==
    (last.op = "enrich") =>
        /\ (~last.held /\ (~last.store_ok \/ ~StoreDistinct(last.table, last.column_name).ok)) =>
               /\ last.r.ret = <<>>
               /\ last.r.cvc = last.cvc
        /\ ~last.store_ok => last.dates = <<>>
\* C14 witness: the store failed for a column the table has
C14_StoreFailedOnKnownColumn ==
    /\ last.op = "enrich"
    /\ ~last.held
    /\ ~last.store_ok
    /\ StoreDistinct(last.table, last.column_name).ok
    /\ last.r.ret = <<>>
    /\ last.dates = <<>>

\* the tokens of the lower-cased question that are longer than 3 characters,
\* are no column name and belong to the vocabulary
RECURSIVE Hallucinated(_, _)
Hallucinated(words, names) ==
    IF words = <<>> THEN <<>>
    ELSE (IF /\ LowerChunk(Head(words)) \in {"color", "rating", "brand", "model", "size", "version"}
             /\ LowerChunk(Head(words)) \notin {"in", "by", "of", "the"}
             /\ \A i \in 1..Len(names) : LowerChunk(names[i]) # LowerChunk(Head(words))
          THEN <<LowerChunk(Head(words))>> ELSE <<>>)
         \o Hallucinated(Tail(words), names)
\* C15: the static field checker returns exactly the tokens of the lower-cased
\* question that are longer than 3 characters, are not a schema column name
\* and belong to the vocabulary {color, rating, brand, model, size, version};
\* a vocabulary word that is a column of the schema is never reported.
C15_MissingTermsAreVocabularyNonColumns ==
    (last.op = "fields") =>
        /\ last.terms = Hallucinated(last.words, last.names)
        /\ \A n \in 1..Len(last.terms), i \in 1..Len(last.names) :
               last.terms[n] # LowerChunk(last.names[i])
\* C15 witness: the question names a vocabulary word that is a column, in
\* another letter case, and one that is not; only the second is reported
C15_ColumnWordSkippedOtherReported ==
    /\ last.op = "fields"
    /\ last.words = <<"brand", "by", "Color">>
    /\ last.names = <<"region", "color">>
    /\ last.terms = <<"brand">>

\* C16: within one reflect call the completion service is called at most
\* twice, and when it is called twice the semantic check comes first and the
\* explanation second; no stage runs twice, and the one query that is
\* explained is the one the verdict carries.
C16_AtMostTwoServiceCallsInOrder ==
    (last.op = "reflect") =>
        /\ last.llm <= 2
        /\ Len(last.obs.calls) = last.llm
        /\ last.obs.calls \in {<<>>, <<"semantic">>, <<"explanation">>, <<"semantic", "explanation">>}
        /\ Len(last.obs.expl_runs) <= 1
        /\ (~last.raised /\ ~last.obs.hit) =>
               /\ Len(last.obs.expl_runs) = 1
               /\ last.ret.refined_sql = last.obs.expl_runs[1].new_sql
\* C16 witness: a reflect call that asked the service twice and returned a
\* query other than the original
C16_TwoCallsAndCorrectedQuery ==
    /\ last.op = "reflect"
    /\ ~last.raised
    /\ last.llm = 2
    /\ last.obs.calls = <<"semantic", "explanation">>
    /\ last.ret.refined_sql # last.req.sql_query

\* C17: reflect takes the SUM-to-SUM(ABS) rewrite path only when the result
\* holds a negative value in a numeric column; a result without one always
\* goes through semantic reflection.
C17_RewriteOnlyOnNegativeValues ==
    (last.op = "reflect" /\ ~last.obs.hit) =>
        /\ last.obs.path = "autofix" => HasNegative(last.req.df)
        /\ ~HasNegative(last.req.df) => (last.obs.path = "semantic" /\ last.obs.sem_ran)

\* C18: when the negative-value issue is present, a reflect miss performs
\* only the rewrite and the explanation stage: no semantic reflection, no
\* backing-store query, no static field check, no new semantic-cache entry;
\* the verdict is in the reflection cache when the call returns.
C18_NegativeIssueSkipsSemanticStage ==
    (last.op = "reflect" /\ ~last.obs.hit /\ HasNegative(last.req.df)) =>
        /\ ~last.raised
        /\ \E n \in 1..Len(last.obs.detected) : last.obs.detected[n] = NegativeIssue
        /\ last.obs.path = "autofix"
        /\ ~last.obs.sem_ran
        /\ ~last.obs.static_ran
        /\ last.store = 0
        /\ last.obs.calls \in {<<>>, <<"explanation">>}
        /\ Len(last.obs.expl_runs) = 1
        /\ last.after.semantic_cache_size = last.before.semantic_cache_size
        /\ last.after.column_values_cache_size = last.before.column_values_cache_size
        /\ last.after.reflection_cache_size = last.before.reflection_cache_size + 1
        /\ \E k \in DOMAIN _reflection_cache : _reflection_cache[k] = last.ret
\* C18 witness: a miss on a result with a negative value and other columns,
\* answered by the rewrite path after a semantic entry was already cached
C18_NegativeMissAfterSemanticEntry ==
    /\ last.op = "reflect"
    /\ ~last.obs.hit
    /\ HasNegative(last.req.df)
    /\ last.obs.path = "autofix"
    /\ last.before.semantic_cache_size >= 1
    /\ last.after.semantic_cache_size = last.before.semantic_cache_size

\* C19: the backing store is queried only during reflect calls whose query
\* result is empty; a reflect call on a non-empty result issues no
\* backing-store query.
C19_StoreQueriedOnlyForEmptyResults ==
    (last.op = "reflect" /\ ~Empty(last.req.df)) =>
        /\ last.store = 0
        /\ last.obs.prompt_values = {}
        /\ last.after.column_values_cache_size = last.before.column_values_cache_size

\* C20: the static field checker runs in reflect if and only if semantic
\* reflection returned the original query unchanged and its feedback does not
\* mention a missing field; when it runs and returns a term, the verdict's
\* refined_sql is NULL and its feedback is the missing-field message; when it
\* returns no term, refined_sql and feedback stay as semantic reflection
\* produced them.
C20_StaticCheckOnlyOnUnchangedQuery ==
    (last.op = "reflect" /\ last.obs.sem_ran) =>
        LET sem == last.obs.sem_ret
            terms == detect_missing_fields(last.req.question, last.req.schema)
            mentions == IsStr(sem.feedback) /\ In("missing", Lower(sem.feedback.v))
        IN /\ last.obs.static_ran <=> (sem.refined_sql = last.req.sql_query /\ ~mentions)
           /\ (~last.raised /\ last.obs.static_ran /\ terms # <<>>) =>
                  /\ last.ret.refined_sql = <<"NULL">>
                  /\ last.ret.feedback = StaticFeedback(terms)
           /\ (~last.raised /\ last.obs.static_ran /\ terms = <<>>) =>
                  /\ last.ret.refined_sql = sem.refined_sql
                  /\ last.ret.feedback = sem.feedback

\* the JSON object with both keys that a completion text holds, alone or
\* between the first pair of fence markers, as a one-element set
FullObjects(raw) ==
    LET fences == {i \in 1..Len(raw) : IsFence(raw[i])}
        open == CHOOSE i \in fences : \A k \in fences : i <= k
        close == CHOOSE j \in fences \ {open} : \A k \in fences \ {open} : j <= k
        inner == IF Cardinality(fences) >= 2 THEN SubSeq(raw, open + 1, close - 1) ELSE raw
    IN IF /\ Len(inner) = 1
          /\ inner[1].c = "json"
          /\ inner[1].body.jt = "obj"
          /\ inner[1].body.hasfb
          /\ inner[1].body.hassql
       THEN {inner[1]} ELSE {}
\* C21: when the completion text cannot be parsed as a JSON object carrying
\* both feedback and refined_sql, semantic_reflection returns refined_sql =
\* NULL if the text contains a missing/absent marker and otherwise the
\* original query with a generic feedback; JSON between fence markers is
\* parsed as if the markers were absent.
C21_UnparsableCompletionFallsBack ==
    (last.op = "semantic" /\ ~last.held /\ ~last.resp.raises) =>
        LET raw == last.resp.raw
            sql_query == last.req.sql_query
            text == Lower(RawText(StripFences(raw), sql_query))
            marker == In("missing", text) \/ In("not present", text)
        IN /\ (FullObjects(raw) = {} /\ marker) => last.r.ret.refined_sql = <<"NULL">>
           /\ (FullObjects(raw) = {} /\ ~marker) =>
                  /\ last.r.ret.refined_sql = sql_query
                  /\ IsStr(last.r.ret.feedback)
           /\ \A obj \in FullObjects(raw) :
                  last.r.ret = ParseCompletion(Completion(<<obj>>), sql_query)

\* the text of the first WHERE clause of a query, whitespace runs collapsed
WhereTexts(sql) == {Strip(CollapseSpaces(w)) : w \in {FindWhere(sql)[n] : n \in {1} \cap DOMAIN FindWhere(sql)}}
\* C22: when the service proposes a query that differs from the original
\* but whose WHERE-clause text equals the original's after whitespace
\* normalisation, semantic_reflection returns the original query with the
\* 'query already correct' feedback; a proposal whose normalised WHERE clause
\* differs, and the sentinel NULL, are returned as proposed.
C22_CosmeticRewriteIsReverted ==
    (/\ last.op = "semantic"
     /\ ~last.held
     /\ ~last.resp.raises
     /\ Len(last.resp.raw) = 1
     /\ FullObjects(last.resp.raw) # {}
     /\ IsStr(Resolve(last.resp.raw[1].body.sql, last.req.sql_query))) =>
        LET sql_query == last.req.sql_query
            proposed == Resolve(last.resp.raw[1].body.sql, sql_query).v
            both == WhereTexts(sql_query) # {} /\ WhereTexts(proposed) # {}
        IN /\ (proposed # sql_query /\ both /\ WhereTexts(sql_query) = WhereTexts(proposed)) =>
                  /\ last.r.ret.refined_sql = sql_query
                  /\ last.r.ret.feedback = Str(<<"Query is already correct. Empty result is due to data availability.">>)
           /\ ((both /\ WhereTexts(sql_query) # WhereTexts(proposed)) \/ proposed = <<"NULL">>) =>
                  /\ last.r.ret.refined_sql = proposed
                  /\ last.r.ret.feedback = last.resp.raw[1].body.fb

\* the feedback names a concrete missing value, date or field
NamesMissingData(feedback) ==
    /\ IsStr(feedback)
    /\ \E kw \in {"date", "doesn't exist", "not present", "no region", "no product", "missing"} :
           In(kw, Lower(feedback.v))
\* C23: whenever the verdict's refined_sql is the sentinel NULL, the
\* explanation is not the completion service's explanation text: it is the
\* date-range message or the feedback itself when the feedback references a
\* concrete missing value, date or field, and the fixed generic 'no matching
\* data' message otherwise.
C23_NullVerdictExplainedFromData ==
    (last.op = "reflect" /\ ~last.raised /\ last.ret.refined_sql = <<"NULL">>) =>
        LET explanation == last.ret.explanation
            dated == /\ IsStr(explanation)
                     /\ Head(explanation.v) = "The query returned no results because there's no data from the requested time period in the database."
            generic == /\ IsStr(explanation)
                       /\ Head(explanation.v) = "There's no matching data for your query criteria. "
        IN /\ \A e \in Explanations : explanation # (IF e.raises THEN ExplanationFailed ELSE Str(RawText(e.raw, last.req.sql_query)))
           /\ NamesMissingData(last.ret.feedback) => (dated \/ explanation = last.ret.feedback)
           /\ ~NamesMissingData(last.ret.feedback) => generic

\* C24: two semantic-reflection requests with the same question, query and
\* schema but different result sets use independent semantic-cache entries:
\* the second is a miss, calls the completion service and does not receive
\* the result cached for the first.
C24_ResultSetsHaveOwnSemanticEntries ==
    (last.op = "semantic again" /\ last.first # last.second) =>
        /\ ~last.r.hit
        /\ last.r.llm = 1
        /\ last.r.ret # HeldResult
        /\ Cardinality(DOMAIN last.r.sc) = 2

\* C25: two explanation requests that agree on issues, feedback, old query
\* and new query and differ only in their sample rows share one cache entry:
\* the second returns the first's explanation without calling the completion
\* service and without adding an entry.
C25_ExplanationKeyIgnoresSample ==
    (last.op = "explain again" /\ SampleOutput(last.first) # SampleOutput(last.second)) =>
        /\ last.r1.llm = 1
        /\ last.r2.hit
        /\ last.r2.llm = 0
        /\ last.r2.ret = last.r1.ret
        /\ last.r2.ec = last.r1.ec
        /\ Cardinality(DOMAIN last.r2.ec) = 1
\* C25 witness: the second request came with other sample rows and the
\* service would have answered it differently, yet the first answer returned
C25_SecondSampleGetsFirstExplanation ==
    /\ last.op = "explain again"
    /\ SampleOutput(last.first) # SampleOutput(last.second)
    /\ last.e1 # last.e2
    /\ ~last.e1.raises
    /\ last.r2.ret = Str(RawText(last.e1.raw, last.req.sql_query))

\* C26: set_table, also with the name of the active table, empties the
\* column-value cache and the semantic cache and leaves the reflection cache
\* and the explanation cache unchanged; hence a reflect call repeated right
\* after a table switch with the same (question, query, result, schema) is a
\* reflection-cache hit and returns the verdict computed before the switch.
C26_SetTableKeepsReflections ==
    /\ (last.op = "set_table") =>
           /\ table_name = last.table
           /\ _column_values_cache = EmptyCache
           /\ _semantic_cache = EmptyCache
           /\ last.after.reflection_cache_size = last.before.reflection_cache_size
           /\ last.after.explanation_cache_size = last.before.explanation_cache_size
           /\ \A req \in DOMAIN returned :
                  \E k \in DOMAIN _reflection_cache : _reflection_cache[k] = returned[req]
    /\ (last.op = "reflect" /\ last.prior = "set_table" /\ last.prev.known) =>
           /\ last.obs.hit
           /\ ~last.raised
           /\ last.ret = last.prev.ret
           /\ last.llm = 0
           /\ last.store = 0

\* C27: the degraded results produced on failure are cached like successful
\* ones: after a completion-service failure in semantic reflection or in
\* explanation generation, a repeated call with the same inputs returns the
\* same failure result and makes no new completion-service call; a failed
\* column-value lookup is not cached and is retried on the next call.
C27_FailureResultsAreCached ==
    (last.op = "retry") =>
        /\ last.s1.llm = 1
        /\ last.s1.ret.feedback = Str(<<"Semantic reflection encountered an error: ", "reason">>)
        /\ last.s2.hit
        /\ last.s2.llm = 0
        /\ last.s2.ret = last.s1.ret
        /\ last.s2.sc = last.s1.sc
        /\ last.x1.llm = 1
        /\ last.x1.ret = Str(<<"(Explanation generation failed: ", "reason", ")">>)
        /\ last.x2.hit
        /\ last.x2.llm = 0
        /\ last.x2.ret = last.x1.ret
        /\ last.x2.ec = last.x1.ec
        /\ last.l1.ret = <<>>
        /\ last.l1.cvc = EmptyCache
        /\ last.l2.queries = 1
        /\ (last.store_ok /\ StoreDistinct(last.table, last.column_name).ok) =>
               /\ last.l2.ret = StoreDistinct(last.table, last.column_name).values
               /\ Cardinality(DOMAIN last.l2.cvc) = 1
\* C27 witness: on the repeated calls the service and the store would have
\* answered; the two stages returned their failure results, the lookup its
\* values
C27_RepeatAfterFailureWithWorkingService ==
    /\ last.op = "retry"
    /\ ~last.resp.raises
    /\ ~last.expl.raises
    /\ last.store_ok
    /\ last.s2.ret.refined_sql = last.req.sql_query
    /\ last.x2.ret = ExplanationFailed
    /\ last.l2.ret # <<>>

\* C28: two reflect calls whose (question, query, schema) triples differ
\* never resolve to the same reflection-cache key, so the second is not
\* served the verdict cached for the first, also when the texts contain the
\* "|" that joins the key parts.
C28_DifferentTriplesHaveDifferentKeys ==
    (/\ last.op = "reflect again"
     /\ <<last.first.question, last.first.sql_query, last.first.schema>>
            # <<last.second.question, last.second.sql_query, last.second.schema>>) =>
        /\ last.k1 # last.k2
        /\ ~last.r2.obs.hit
        /\ last.r2.llm >= 1

====
